---- MODULE Spec2Model ----
(***************************************************************************)
(* Model of the shorty URL shortener worker (src/worker.js).  The worker   *)
(* is stateless: all shared state lives in one key-value namespace         *)
(* (LINKS_KV).  Every request handler is a sequence of steps separated by  *)
(* awaits (store get/put, the siteverify call); requests of different      *)
(* clients interleave at those awaits.  The click-increment of a redirect  *)
(* is handed to ctx.waitUntil and runs after the response was produced.    *)
(*                                                                         *)
(* The key space is modelled by one map per key prefix:                    *)
(*   links      `<id>`                    -> destination URL               *)
(*   metas      `<id>_meta`               -> JSON text of the metadata     *)
(*   blocked    `BLOCKED:<domain>`        -> "manual" | "auto" | ...       *)
(*   counts     `REPORT_COUNT:<domain>`   -> decimal text of the count     *)
(*   reported   `REPORTED:<ip>:<domain>`  -> marker with an expiry time    *)
(* An absent key is the empty sequence, a present value v is <<v>>.        *)
(* The store is modelled as linearizable (each get sees the latest put).   *)
(***************************************************************************)
EXTENDS Integers, Sequences, FiniteSets, TLC

\* ---------------------------------------------------------------- bounds
MaxRequests == 3     \* requests started in one behaviour of Spec
MaxReports == 3      \* requests started in one behaviour of SpecReports
MaxBlocking == 4     \* requests started in one behaviour of SpecBlocking
MaxClicks == 5       \* requests started in one behaviour of SpecClicks
MaxShortLinks == 4   \* requests started in one behaviour of SpecShortLinks
MaxThreat == 3       \* requests started in one behaviour of SpecThreat
MaxDomains == 3      \* requests started in one behaviour of SpecDomains
MaxLifecycle == 3    \* requests started in one behaviour of SpecLifecycle
MaxTicks == 1        \* how many times the clock advances

\* ------------------------------------------------------ program constants
maxAttempts == 5
BLOCK_THRESHOLD == 3
expirationTtl == 86400

\* the invocations that can be in flight at once
Procs == {1, 2}

\* ------------------------------------------------------------ strings
\* A URL-like string is kept as its three segments: the scheme prefix, the
\* host labels as typed, and the path.
Str(scheme, host, path) == [scheme |-> scheme, host |-> host, path |-> path]

U_a       == Str("https://", <<"a.com">>, <<>>)
U_WwwA    == Str("https://", <<"WWW", "A.COM">>, <<>>)
U_mailto  == Str("mailto:", <<>>, <<"x">>)
U_bad     == Str("", <<"not a url">>, <<>>)
U_empty   == Str("", <<>>, <<>>)
ShortUrl(id) == Str("https://", <<"lkly.net">>, <<"/+", id>>)

ShortIds == {"aaaaaa", "bbbbbb"}
IPs      == {"ip1", "ip2", "ip3"}
TwoIPs   == {"ip1", "ip2"}

LongUrls    == {U_a, U_WwwA, U_mailto, U_bad, U_empty}
Domains     == {<<"a.com">>, <<"www", "a.com">>}
BlockValues == {"manual", "auto", "x"}

\* what the siteverify call can do: answer success, answer failure, or throw
Outcomes == {"success", "fail", "throw"}

Null == <<>>
Some(v) == <<v>>

\* `!s` for a string
Falsy(s) == s = U_empty

\* new URL(s) succeeds
CanParse(s) == s.scheme \in {"https://", "mailto:"}

Lower(l) == CASE l = "WWW" -> "www" [] l = "A.COM" -> "a.com" [] OTHER -> l

\* new URL(s).hostname: the parser lower-cases the host
Hostname(s) == [i \in 1..Len(s.host) |-> Lower(s.host[i])]

\* if (domain.startsWith('www.')) domain = domain.substring(4)
NormalizeDomain(h) == IF Len(h) > 1 /\ h[1] = "www" THEN Tail(h) ELSE h

\* reportedUrl.match(/^https:\/\/lkly\.net\/\+(.+)$/)
ShortMatch(s) ==
    /\ s.scheme = "https://"
    /\ s.host = <<"lkly.net">>
    /\ Len(s.path) = 2
    /\ s.path[1] = "/+"
    /\ s.path[2] # ""

\* currentCount.toString(): the decimal digits, most significant first
RECURSIVE toString(_)
toString(n) == IF n < 10 THEN <<n>> ELSE Append(toString(n \div 10), n % 10)

\* parseInt(digits)
RECURSIVE ParseInt(_)
ParseInt(s) == IF Len(s) = 0 THEN 0
               ELSE 10 * ParseInt(SubSeq(s, 1, Len(s) - 1)) + s[Len(s)]

\* JSON.stringify / JSON.parse of the metadata object
JSONStringify(m) == << <<"originalUrl", m.originalUrl>>,
                       <<"createdAt", m.createdAt>>,
                       <<"clicks", m.clicks>> >>
JSONParse(j) == [originalUrl |-> j[1][2], createdAt |-> j[2][2], clicks |-> j[3][2]]

\* ---------------------------------------------------------------- state
VARIABLES
    links,      \* [ShortIds -> Null or <<url>>]            key `<id>`
    metas,      \* [ShortIds -> Null or <<json>>]           key `<id>_meta`
    blocked,    \* [Domains  -> Null or <<value>>]          key `BLOCKED:<domain>`
    counts,     \* [Domains  -> Null or <<digits>>]         key `REPORT_COUNT:<domain>`
    reported,   \* [IPs \X Domains -> Null or <<expiry>>]   key `REPORTED:<ip>:<domain>`
    now,        \* the clock, in seconds
    secretSet,  \* env.TURNSTILE_SECRET_KEY is configured
    req,        \* [Procs -> request record]: the requests in flight
    started,    \* number of requests started so far
    returned,   \* history: <<id, url>> of every create answered 200
    reporters,  \* history: <<domain, ip>> of every report answered 200 "submitted"
    clicked,    \* history: [ShortIds -> number of click tasks started]
    counted     \* history: [Domains -> number of reports that wrote a count]

store == <<links, metas, blocked, counts, reported>>
hist  == <<returned, reporters, clicked, counted>>
vars  == <<links, metas, blocked, counts, reported, now, secretSet, req, started,
           returned, reporters, clicked, counted>>

\* The locals of one invocation of fetch(), its response, and a log of the
\* store operations it performed.
Blank == [kind |-> "none", pc |-> "idle",
          url |-> U_empty, token |-> FALSE, ip |-> "", sid |-> "",
          domain |-> <<>>, attempts |-> 0, currentCount |-> 0, metadata |-> Null,
          status |-> 0, msg |-> "", location |-> Null,
          reads |-> 0, writes |-> <<>>,
          called |-> FALSE, outcome |-> "",
          task |-> FALSE, taskFailed |-> FALSE, got |-> Null, countRead |-> Null,
          expect |-> {}, reportersAtStart |-> {}, blockedAtStart |-> {},
          dup |-> FALSE, admit |-> FALSE, admitAt |-> 0, threat |-> ""]

\* One successful LINKS_KV.put, as logged by the request that made it.
W(ns, id, ip, dom, val, prev, ttl) ==
    [ns |-> ns, id |-> id, ip |-> ip, dom |-> dom, val |-> val, prev |-> prev, ttl |-> ttl]

\* No invocation has a response waiting to be delivered.
Quiet == \A q \in Procs : req[q].pc # "done"

\* slot p can take a new request
Free(p) == Quiet /\ req[p].pc = "idle"

\* return errorResponse(...) / jsonResponse(...) / new Response(...)
Respond(r, st, m) == [r EXCEPT !.pc = "done", !.status = st, !.msg = m]

\* the catch (e) of the create and report handlers
Caught(r) == Respond(r, 500, "InternalError")

\* The namespace holds no link, count or marker yet; the operator may have
\* blocked a.com by hand (the entries step 2 of create looks up).
Init ==
    /\ links = [i \in ShortIds |-> Null]
    /\ metas = [i \in ShortIds |-> Null]
    /\ \E v \in {Null} \cup {Some(x) : x \in BlockValues} :
          blocked = [d \in Domains |-> IF d = <<"a.com">> THEN v ELSE Null]
    /\ counts = [d \in Domains |-> Null]
    /\ reported = [k \in IPs \X Domains |-> Null]
    /\ now = 0
    /\ secretSet \in BOOLEAN
    /\ req = [p \in Procs |-> Blank]
    /\ started = 0
    /\ returned = {}
    /\ reporters = {}
    /\ clicked = [i \in ShortIds |-> 0]
    /\ counted = [d \in Domains |-> 0]

\* ------------------------------------------------------- POST /api/create
\* (variant: the bound is tested with >=)
NextAttempt_OffByOne(r, id) ==
    LET r1 == [r EXCEPT !.sid = id, !.attempts = r.attempts + 1]
    IN  IF r1.attempts >= maxAttempts
        THEN Respond(r1, 500, "IDExhaustionError")
        ELSE [r1 EXCEPT !.pc = "c_exists"]

\* do { shortId = generateShortId(); attempts++; if (attempts > maxAttempts) return 500 }
\* up to the await of LINKS_KV.get(shortId); id is the generator's draw
NextAttempt(r, id) ==
    LET r1 == [r EXCEPT !.sid = id, !.attempts = r.attempts + 1]
    IN  IF r1.attempts > maxAttempts
        THEN Respond(r1, 500, "IDExhaustionError")
        ELSE [r1 EXCEPT !.pc = "c_exists"]

\* (variant: the destination is not validated)
ValidateAndGenerate_Unchecked(r, id) == NextAttempt(r, id)

\* step 3: the longUrl checks, then the first round of the ID loop
ValidateAndGenerate(r, id) ==
    IF Falsy(r.url) THEN Respond(r, 400, "MissingLongUrl")
    ELSE IF ~CanParse(r.url) THEN Respond(r, 400, "ValidationError")
    ELSE NextAttempt(r, id)

\* try { domainToCheck = normalized hostname } catch { }: empty when the URL
\* does not parse or has no host
DomainToCheck(u) == IF CanParse(u) THEN NormalizeDomain(Hostname(u)) ELSE <<>>

\* (variant: the outcome is not examined)
Success_Unchecked(outcome) == TRUE

\* outcome.success
Success(outcome) == outcome = "success"

\* (variant: only entries tagged "manual" count)
IsBlocked_ManualOnly(v) == v = Some("manual")

\* isBlocked !== null
IsBlocked(v) == v # Null

\* request body read, token check, secret check, siteverify call issued
CreateRequest(p, u, tok) ==
    /\ Free(p)
    /\  LET r == [Blank EXCEPT !.kind = "create", !.url = u, !.token = tok,
                               !.reportersAtStart = reporters,
                               !.blockedAtStart = {d \in Domains : blocked[d] # Null}]
        IN  req' = [req EXCEPT ![p] =
                IF ~tok THEN Respond(r, 400, "MissingCaptcha")
                ELSE IF ~secretSet THEN Respond(r, 500, "ConfigError")
                ELSE [r EXCEPT !.pc = "c_verify", !.called = TRUE]]
    /\ started' = started + 1
    /\ UNCHANGED <<store, now, secretSet, hist>>

\* the siteverify call returns (or throws), then the hostname is extracted
CreateVerify(p, outcome) ==
    /\ Quiet
    /\ req[p].pc = "c_verify"
    /\ \E id \in ShortIds :
        LET r == req[p]
            d == DomainToCheck(r.url)
            v == [r EXCEPT !.outcome = outcome, !.domain = d]
        IN  req' = [req EXCEPT ![p] =
                CASE outcome = "throw" -> Caught([r EXCEPT !.outcome = outcome])
                  [] ~Success(outcome) ->
                        Respond([r EXCEPT !.outcome = outcome], 403, "CaptchaFailed")
                  [] OTHER -> IF d # <<>> THEN [v EXCEPT !.pc = "c_blockGet"]
                              ELSE ValidateAndGenerate(v, id)]
    /\ UNCHANGED <<store, now, secretSet, started, hist>>

\* await LINKS_KV.get(blockKey)
CreateBlockGet(p) ==
    /\ Quiet
    /\ req[p].pc = "c_blockGet"
    /\ \E ok \in BOOLEAN, id \in ShortIds :
        LET r == [req[p] EXCEPT !.reads = @ + 1]
        IN  req' = [req EXCEPT ![p] =
                IF ~ok THEN Caught(r)
                ELSE IF IsBlocked(blocked[r.domain]) THEN Respond(r, 403, "DomainBlocked")
                ELSE ValidateAndGenerate(r, id)]
    /\ UNCHANGED <<store, now, secretSet, started, hist>>

\* while (await LINKS_KV.get(shortId) !== null)
CreateExists(p) ==
    /\ Quiet
    /\ req[p].pc = "c_exists"
    /\ \E ok \in BOOLEAN, id \in ShortIds :
        LET r == [req[p] EXCEPT !.reads = @ + 1]
        IN  req' = [req EXCEPT ![p] =
                IF ~ok THEN Caught(r)
                ELSE IF links[r.sid] # Null THEN NextAttempt(r, id)
                ELSE [r EXCEPT !.pc = "c_putUrl",
                               !.metadata = Some([originalUrl |-> r.url,
                                                  createdAt |-> now, clicks |-> 0])]]
    /\ UNCHANGED <<store, now, secretSet, started, hist>>

\* await LINKS_KV.put(shortId, longUrl)
CreatePutUrl(p) ==
    /\ Quiet
    /\ req[p].pc = "c_putUrl"
    /\ LET r == req[p]
       IN  \/ /\ links' = [links EXCEPT ![r.sid] = Some(r.url)]
              /\ req' = [req EXCEPT ![p] = [r EXCEPT !.pc = "c_putMeta",
                    !.writes = Append(@, W("links", r.sid, "", <<>>, r.url, links[r.sid], 0))]]
           \/ /\ req' = [req EXCEPT ![p] = Caught(r)]
              /\ UNCHANGED links
    /\ UNCHANGED <<metas, blocked, counts, reported, now, secretSet, started, hist>>

\* await LINKS_KV.put(`${shortId}_meta`, JSON.stringify(metadata)); return 200
CreatePutMeta(p) ==
    /\ Quiet
    /\ req[p].pc = "c_putMeta"
    /\ LET r == req[p]
           json == JSONStringify(r.metadata[1])
       IN  \/ /\ metas' = [metas EXCEPT ![r.sid] = Some(json)]
              /\ req' = [req EXCEPT ![p] = Respond([r EXCEPT
                    !.writes = Append(@, W("metas", r.sid, "", <<>>, json, metas[r.sid], 0))],
                    200, "Created")]
              /\ returned' = returned \cup {<<r.sid, r.url>>}
           \/ /\ req' = [req EXCEPT ![p] = Caught(r)]
              /\ UNCHANGED <<metas, returned>>
    /\ UNCHANGED <<links, blocked, counts, reported, now, secretSet, started, reporters,
                   clicked, counted>>

\* ------------------------- POST /api/create, malicious-URL-checking variant
\* The variant of the worker that also queries a threat lookup: gate steps 1
\* to 3 as above, then step 4, then validation, the ID loop and the writes.
\* what the threat lookup can do: no match, a match, or fail in one of three ways
ThreatResults == {"clean", "match", "networkError", "badStatus", "noApiKey"}

\* (variant: a failed lookup lets the request through)
ThreatVerdict_FailOpen(res) ==
    CASE res = "match" -> "URLFlaggedUnsafe"
      [] OTHER -> "pass"

\* step 4: a match is URLFlaggedUnsafe, any failure of the call is
\* SafeBrowsingError (fail-closed)
ThreatVerdict(res) ==
    CASE res = "clean" -> "pass"
      [] res = "match" -> "URLFlaggedUnsafe"
      [] OTHER -> "SafeBrowsingError"

\* steps 1 and 2 up to the verification call
CheckedCreateRequest(p, u, tok) ==
    /\ Free(p)
    /\  LET r == [Blank EXCEPT !.kind = "create", !.url = u, !.token = tok,
                               !.reportersAtStart = reporters,
                               !.blockedAtStart = {d \in Domains : blocked[d] # Null}]
        IN  req' = [req EXCEPT ![p] =
                IF ~tok THEN Respond(r, 400, "MissingCaptcha")
                ELSE IF ~secretSet THEN Respond(r, 500, "ConfigError")
                ELSE [r EXCEPT !.pc = "k_verify", !.called = TRUE]]
    /\ started' = started + 1
    /\ UNCHANGED <<store, now, secretSet, hist>>

\* step 2's outcome; step 3's hostname extraction
CheckedCreateVerify(p, outcome) ==
    /\ Quiet
    /\ req[p].pc = "k_verify"
    /\  LET r == req[p]
            d == DomainToCheck(r.url)
            v == [r EXCEPT !.outcome = outcome, !.domain = d]
        IN  req' = [req EXCEPT ![p] =
                CASE outcome = "throw" -> Caught([r EXCEPT !.outcome = outcome])
                  [] ~Success(outcome) ->
                        Respond([r EXCEPT !.outcome = outcome], 403, "CaptchaFailed")
                  [] OTHER -> IF d # <<>> THEN [v EXCEPT !.pc = "k_blockGet"]
                              ELSE [v EXCEPT !.pc = "k_threat"]]
    /\ UNCHANGED <<store, now, secretSet, started, hist>>

\* step 3: the blocklist lookup
CheckedCreateBlockGet(p) ==
    /\ Quiet
    /\ req[p].pc = "k_blockGet"
    /\ \E ok \in BOOLEAN :
        LET r == [req[p] EXCEPT !.reads = @ + 1]
        IN  req' = [req EXCEPT ![p] =
                IF ~ok THEN Caught(r)
                ELSE IF IsBlocked(blocked[r.domain]) THEN Respond(r, 403, "DomainBlocked")
                ELSE [r EXCEPT !.pc = "k_threat"]]
    /\ UNCHANGED <<store, now, secretSet, started, hist>>

\* step 4: the threat lookup returns; then step 5 and the first ID attempt
ThreatLookup(p, res) ==
    /\ Quiet
    /\ req[p].pc = "k_threat"
    /\ \E id \in ShortIds :
        LET r == [req[p] EXCEPT !.threat = res]
            v == ThreatVerdict(res)
        IN  req' = [req EXCEPT ![p] =
                CASE v = "URLFlaggedUnsafe" -> Respond(r, 400, v)
                  [] v = "SafeBrowsingError" -> Respond(r, 500, v)
                  [] OTHER -> ValidateAndGenerate(r, id)]
    /\ UNCHANGED <<store, now, secretSet, started, hist>>

\* ------------------------------------------------------- POST /api/report
\* (variant: the report path keeps a leading "www.")
ExtractDomain_NoStrip(r, target) ==
    IF ~CanParse(target) THEN Respond(r, 400, "ValidationError")
    ELSE LET d == Hostname(target)
         IN  IF d # <<>> THEN [r EXCEPT !.domain = d, !.pc = "p_throttle"]
             ELSE Respond(r, 500, "NoDomain")

\* new URL(targetUrl).hostname, normalized; then `if (domain)`
ExtractDomain(r, target) ==
    IF ~CanParse(target) THEN Respond(r, 400, "ValidationError")
    ELSE LET d == NormalizeDomain(Hostname(target))
         IN  IF d # <<>> THEN [r EXCEPT !.domain = d, !.pc = "p_throttle"]
             ELSE Respond(r, 500, "NoDomain")

\* parseInt(await LINKS_KV.get(reportCountKey) || '0')
ReadCount(v) == IF v = Null THEN ParseInt(<<0>>) ELSE ParseInt(v[1])

\* (variant: the threshold is taken one too low)
ReachedThreshold_Early(c) == c >= BLOCK_THRESHOLD - 1

\* (variant: the threshold must be exceeded)
ReachedThreshold_Strict(c) == c > BLOCK_THRESHOLD

\* currentCount >= BLOCK_THRESHOLD
ReachedThreshold(c) == c >= BLOCK_THRESHOLD

\* the throttle marker's key: `REPORTED:${ip}:${domain}`
UserReportKey(r) == <<r.ip, r.domain>>

\* (variant: the secret is examined before the token)
ReportRequest_SecretFirst(p, u, tok, ip) ==
    /\ Free(p)
    /\  LET r == [Blank EXCEPT !.kind = "report", !.url = u, !.token = tok, !.ip = ip]
        IN  req' = [req EXCEPT ![p] =
                IF ~secretSet THEN Respond(r, 500, "ConfigError")
                ELSE IF ~tok THEN Respond(r, 400, "MissingCaptcha")
                ELSE [r EXCEPT !.pc = "p_verify", !.called = TRUE]]
    /\ started' = started + 1
    /\ UNCHANGED <<store, now, secretSet, hist>>

\* request body read, token check, secret check, siteverify call issued
ReportRequest(p, u, tok, ip) ==
    /\ Free(p)
    /\  LET r == [Blank EXCEPT !.kind = "report", !.url = u, !.token = tok, !.ip = ip]
        IN  req' = [req EXCEPT ![p] =
                IF ~tok THEN Respond(r, 400, "MissingCaptcha")
                ELSE IF ~secretSet THEN Respond(r, 500, "ConfigError")
                ELSE [r EXCEPT !.pc = "p_verify", !.called = TRUE]]
    /\ started' = started + 1
    /\ UNCHANGED <<store, now, secretSet, hist>>

\* the siteverify call returns; reportedUrl check; short-link pattern
ReportVerify(p, outcome) ==
    /\ Quiet
    /\ req[p].pc = "p_verify"
    /\  LET r == req[p]
            v == [r EXCEPT !.outcome = outcome]
        IN  req' = [req EXCEPT ![p] =
                CASE outcome = "throw" -> Caught(v)
                  [] ~Success(outcome) -> Respond(v, 403, "CaptchaFailed")
                  [] OTHER -> IF Falsy(r.url) THEN Respond(v, 400, "MissingReportedUrl")
                              ELSE IF ShortMatch(r.url)
                                   THEN [v EXCEPT !.sid = r.url.path[2], !.pc = "p_lookup"]
                              ELSE ExtractDomain(v, r.url)]
    /\ UNCHANGED <<store, now, secretSet, started, hist>>

\* (variant: a short link that does not resolve is an error)
ReportLookup_NotFoundIsError(p) ==
    /\ Quiet
    /\ req[p].pc = "p_lookup"
    /\ \E ok \in BOOLEAN :
        LET r == [req[p] EXCEPT !.reads = @ + 1, !.got = links[req[p].sid]]
        IN  req' = [req EXCEPT ![p] =
                IF ~ok THEN Respond([r EXCEPT !.got = Null], 400, "ValidationError")
                ELSE IF links[r.sid] # Null THEN ExtractDomain(r, links[r.sid][1])
                ELSE Respond(r, 404, "NotFound")]
    /\ UNCHANGED <<store, now, secretSet, started, hist>>

\* const originalUrl = await LINKS_KV.get(shortId), inside the try whose
\* catch answers 400 "Invalid URL format provided in report."
ReportLookup(p) ==
    /\ Quiet
    /\ req[p].pc = "p_lookup"
    /\ \E ok \in BOOLEAN :
        LET r == [req[p] EXCEPT !.reads = @ + 1, !.got = links[req[p].sid]]
        IN  req' = [req EXCEPT ![p] =
                IF ~ok THEN Respond([r EXCEPT !.got = Null], 400, "ValidationError")
                ELSE IF links[r.sid] # Null THEN ExtractDomain(r, links[r.sid][1])
                ELSE Respond(r, 200, "ShortLinkNotFound")]
    /\ UNCHANGED <<store, now, secretSet, started, hist>>

\* A report for the same address and domain that passed its throttle check
\* less than a marker lifetime ago and is still under way.
Overlapping(p, r) ==
    \E q \in Procs \ {p} :
        /\ req[q].kind = "report" /\ req[q].admit /\ req[q].pc # "done"
        /\ req[q].ip = r.ip /\ req[q].domain = r.domain
        /\ now < req[q].admitAt + expirationTtl

\* const alreadyReported = await LINKS_KV.get(userReportKey)
ReportThrottle(p) ==
    /\ Quiet
    /\ req[p].pc = "p_throttle"
    /\ \E ok \in BOOLEAN :
        LET r == [req[p] EXCEPT !.reads = @ + 1]
        IN  req' = [req EXCEPT ![p] =
                IF ~ok THEN Caught(r)
                ELSE IF reported[UserReportKey(r)] # Null
                     THEN Respond(r, 429, "TooManyRequests")
                ELSE [r EXCEPT !.pc = "p_countGet", !.admit = TRUE, !.admitAt = now,
                               !.dup = Overlapping(p, r)]]
    /\ UNCHANGED <<store, now, secretSet, started, hist>>

\* let currentCount = parseInt(...); currentCount++
ReportCountGet(p) ==
    /\ Quiet
    /\ req[p].pc = "p_countGet"
    /\ \E ok \in BOOLEAN :
        LET r == [req[p] EXCEPT !.reads = @ + 1]
        IN  req' = [req EXCEPT ![p] =
                IF ~ok THEN Caught(r)
                ELSE [r EXCEPT !.currentCount = ReadCount(counts[r.domain]) + 1,
                               !.countRead = counts[r.domain],
                               !.pc = "p_putCount"]]
    /\ UNCHANGED <<store, now, secretSet, started, hist>>

\* await LINKS_KV.put(reportCountKey, currentCount.toString())
ReportPutCount(p) ==
    /\ Quiet
    /\ req[p].pc = "p_putCount"
    /\ LET r == req[p]
           val == toString(r.currentCount)
       IN  \/ /\ counts' = [counts EXCEPT ![r.domain] = Some(val)]
              /\ req' = [req EXCEPT ![p] = [r EXCEPT !.pc = "p_putMark",
                    !.writes = Append(@, W("counts", "", "", r.domain, val, counts[r.domain], 0))]]
              /\ counted' = [counted EXCEPT ![r.domain] = @ + 1]
           \/ /\ req' = [req EXCEPT ![p] = Caught(r)]
              /\ UNCHANGED <<counts, counted>>
    /\ UNCHANGED <<links, metas, blocked, reported, now, secretSet, started,
                   returned, reporters, clicked>>

\* await LINKS_KV.put(userReportKey, "1", { expirationTtl: 86400 }); threshold test
ReportPutMark(p) ==
    /\ Quiet
    /\ req[p].pc = "p_putMark"
    /\ LET r == req[p]
           k == UserReportKey(r)
           w == [r EXCEPT !.writes =
                    Append(@, W("reported", "", k[1], k[2], "1", reported[k], expirationTtl))]
       IN  \/ /\ reported' = [reported EXCEPT ![k] = Some(now + expirationTtl)]
              /\ IF ReachedThreshold(r.currentCount)
                 THEN /\ req' = [req EXCEPT ![p] = [w EXCEPT !.pc = "p_putBlock"]]
                      /\ UNCHANGED reporters
                 ELSE /\ req' = [req EXCEPT ![p] = Respond(w, 200, "Submitted")]
                      /\ reporters' = reporters \cup {<<r.domain, r.ip>>}
           \/ /\ req' = [req EXCEPT ![p] = Caught(r)]
              /\ UNCHANGED <<reported, reporters>>
    /\ UNCHANGED <<links, metas, blocked, counts, now, secretSet, started, returned,
                   clicked, counted>>

\* (variant: the count is cleared once the domain is blocked)
ReportPutBlock_ResetCount(p) ==
    /\ Quiet
    /\ req[p].pc = "p_putBlock"
    /\ LET r == req[p]
       IN  /\ blocked' = [blocked EXCEPT ![r.domain] = Some("auto")]
           /\ counts' = [counts EXCEPT ![r.domain] = Null]
           /\ req' = [req EXCEPT ![p] = Respond([r EXCEPT !.writes =
                    Append(@, W("blocked", "", "", r.domain, "auto", blocked[r.domain], 0))],
                    200, "SubmittedBlocked")]
           /\ reporters' = reporters \cup {<<r.domain, r.ip>>}
    /\ UNCHANGED <<links, metas, reported, now, secretSet, started, returned,
                   clicked, counted>>

\* await LINKS_KV.put(blockKey, "auto"); return 200
ReportPutBlock(p) ==
    /\ Quiet
    /\ req[p].pc = "p_putBlock"
    /\ LET r == req[p]
       IN  \/ /\ blocked' = [blocked EXCEPT ![r.domain] = Some("auto")]
              /\ req' = [req EXCEPT ![p] = Respond([r EXCEPT !.writes =
                    Append(@, W("blocked", "", "", r.domain, "auto", blocked[r.domain], 0))],
                    200, "SubmittedBlocked")]
              /\ reporters' = reporters \cup {<<r.domain, r.ip>>}
           \/ /\ req' = [req EXCEPT ![p] = Caught(r)]
              /\ UNCHANGED <<blocked, reporters>>
    /\ UNCHANGED <<links, metas, counts, reported, now, secretSet, started, returned,
                   clicked, counted>>

\* --------------------------------------------------- GET /api/stats/<id>
StatsRequest(p, id) ==
    /\ Free(p)
    /\  LET r == [Blank EXCEPT !.kind = "stats", !.sid = id]
        IN  req' = [req EXCEPT ![p] =
                IF id = "" THEN Respond(r, 400, "MissingShortId")
                ELSE [r EXCEPT !.pc = "s_get"]]
    /\ started' = started + 1
    /\ UNCHANGED <<store, now, secretSet, hist>>

\* (variant: existence is decided by the URL key)
StatsGet_ByUrl(p) ==
    /\ Quiet
    /\ req[p].pc = "s_get"
    /\ \E ok \in BOOLEAN :
        LET r == [req[p] EXCEPT !.reads = @ + 1]
        IN  req' = [req EXCEPT ![p] =
                IF ~ok THEN Caught(r)
                ELSE IF links[r.sid] = Null THEN Respond(r, 404, "NotFound")
                ELSE Respond([r EXCEPT !.metadata =
                                IF metas[r.sid] = Null THEN Null
                                ELSE Some(JSONParse(metas[r.sid][1]))],
                             200, "Stats")]
    /\ UNCHANGED <<store, now, secretSet, started, hist>>

\* const metadataJson = await LINKS_KV.get(`${shortId}_meta`)
StatsGet(p) ==
    /\ Quiet
    /\ req[p].pc = "s_get"
    /\ \E ok \in BOOLEAN :
        LET r == [req[p] EXCEPT !.reads = @ + 1]
        IN  req' = [req EXCEPT ![p] =
                IF ~ok THEN Caught(r)
                ELSE IF metas[r.sid] = Null THEN Respond(r, 404, "NotFound")
                ELSE Respond([r EXCEPT !.metadata = Some(JSONParse(metas[r.sid][1]))],
                             200, "Stats")]
    /\ UNCHANGED <<store, now, secretSet, started, hist>>

\* ------------------------------------------------------------ GET /+<id>
RedirectRequest(p, id) ==
    /\ Free(p)
    /\  LET r == [Blank EXCEPT !.kind = "redirect", !.sid = id,
                               !.expect = {x[2] : x \in {y \in returned : y[1] = id}}]
        IN  req' = [req EXCEPT ![p] =
                IF id = "" THEN Respond(r, 200, "ApiRoot")
                ELSE [r EXCEPT !.pc = "r_get"]]
    /\ started' = started + 1
    /\ UNCHANGED <<store, now, secretSet, hist>>

\* (variant: the lookup result is not examined)
Found_Always(v) == TRUE

\* if (longUrl)
Found(v) == v # Null

\* const longUrl = await LINKS_KV.get(shortId); on a hit the click task is
\* handed to ctx.waitUntil and the 301 is returned
RedirectGet(p) ==
    /\ Quiet
    /\ req[p].pc = "r_get"
    /\ \E ok \in BOOLEAN :
        LET r == [req[p] EXCEPT !.reads = @ + 1]
        IN  /\ req' = [req EXCEPT ![p] =
                  IF ~ok THEN Respond(r, 500, "RedirectError")
                  ELSE IF Found(links[r.sid])
                       THEN [r EXCEPT !.got = links[r.sid], !.task = TRUE, !.pc = "t_get",
                                      !.status = 301, !.msg = "Redirect",
                                      !.location = links[r.sid]]
                  ELSE Respond(r, 404, "NotFound")]
            /\ clicked' = IF ok /\ Found(links[r.sid])
                          THEN [clicked EXCEPT ![r.sid] = @ + 1] ELSE clicked
    /\ UNCHANGED <<store, now, secretSet, started, returned, reporters, counted>>

\* (variant: the increment is applied twice)
IncrementClicks_Twice(m) == [m EXCEPT !.clicks = m.clicks + 2]

\* metadata.clicks = (metadata.clicks || 0) + 1
IncrementClicks(m) == [m EXCEPT !.clicks = m.clicks + 1]

\* (variant: the task's error reaches the handler's catch)
TaskFailure_Propagated(r) == Respond([r EXCEPT !.taskFailed = TRUE], 500, "RedirectError")

\* the task's own catch (e): the error is logged and goes no further
TaskFailure(r) == [r EXCEPT !.pc = "done", !.taskFailed = TRUE]

\* (variant: a missing metadata record is recreated)
TaskGet_Repair(p) ==
    /\ Quiet
    /\ req[p].pc = "t_get"
    /\ \E ok \in BOOLEAN :
        LET r == [req[p] EXCEPT !.reads = @ + 1]
        IN  req' = [req EXCEPT ![p] =
                IF ~ok THEN TaskFailure(r)
                ELSE IF metas[r.sid] = Null
                     THEN [r EXCEPT !.pc = "t_put",
                                    !.metadata = Some([originalUrl |-> r.got[1],
                                                       createdAt |-> now, clicks |-> 1])]
                ELSE [r EXCEPT !.pc = "t_put",
                               !.metadata = Some(IncrementClicks(JSONParse(metas[r.sid][1])))]]
    /\ UNCHANGED <<store, now, secretSet, started, hist>>

\* detached task: const metadataJson = await LINKS_KV.get(`${shortId}_meta`)
TaskGet(p) ==
    /\ Quiet
    /\ req[p].pc = "t_get"
    /\ \E ok \in BOOLEAN :
        LET r == [req[p] EXCEPT !.reads = @ + 1]
        IN  req' = [req EXCEPT ![p] =
                IF ~ok THEN TaskFailure(r)
                ELSE IF metas[r.sid] = Null THEN [r EXCEPT !.pc = "done"]
                ELSE [r EXCEPT !.pc = "t_put",
                               !.metadata = Some(IncrementClicks(JSONParse(metas[r.sid][1])))]]
    /\ UNCHANGED <<store, now, secretSet, started, hist>>

\* detached task: await LINKS_KV.put(`${shortId}_meta`, JSON.stringify(metadata))
TaskPut(p) ==
    /\ Quiet
    /\ req[p].pc = "t_put"
    /\ LET r == req[p]
           json == JSONStringify(r.metadata[1])
       IN  \/ /\ metas' = [metas EXCEPT ![r.sid] = Some(json)]
              /\ req' = [req EXCEPT ![p] = [r EXCEPT !.pc = "done",
                    !.writes = Append(@, W("metas", r.sid, "", <<>>, json, metas[r.sid], 0))]]
           \/ /\ req' = [req EXCEPT ![p] = TaskFailure(r)]
              /\ UNCHANGED metas
    /\ UNCHANGED <<links, blocked, counts, reported, now, secretSet, started, hist>>

\* ------------------------------------------------------------ environment
\* time passes by one marker lifetime; the store drops the markers whose
\* expirationTtl has elapsed
Tick ==
    /\ Quiet
    /\ now < MaxTicks * expirationTtl
    /\ now' = now + expirationTtl
    /\ reported' = [k \in DOMAIN reported |->
                      IF reported[k] # Null /\ reported[k][1] <= now' THEN Null
                      ELSE reported[k]]
    /\ UNCHANGED <<links, metas, blocked, counts, secretSet, req, started, hist>>

\* the response has been delivered: the invocation's locals are dropped
Deliver(p) ==
    /\ req[p].pc = "done"
    /\ req' = [req EXCEPT ![p] = Blank]
    /\ UNCHANGED <<store, now, secretSet, started, hist>>

\* the steps of the handlers that are under way
Step(p) ==
    \/ \E outcome \in Outcomes : CreateVerify(p, outcome)
    \/ CreateBlockGet(p)
    \/ CreateExists(p)
    \/ CreatePutUrl(p)
    \/ CreatePutMeta(p)
    \/ StatsGet(p)
    \/ RedirectGet(p)
    \/ TaskGet(p)
    \/ TaskPut(p)
    \/ Deliver(p)

Next ==
    \/ \E p \in Procs : Step(p)
    \/ /\ started < MaxRequests
       /\ \E p \in Procs :
            \/ \E u \in LongUrls, tok \in BOOLEAN : CreateRequest(p, u, tok)
            \/ \E id \in ShortIds \cup {""} : StatsRequest(p, id)
            \/ \E id \in ShortIds \cup {""} : RedirectRequest(p, id)

Spec == Init /\ [][Next]_vars

\* The abuse-report scenario: verified or rejected reports from two addresses,
\* of a destination and of a short link, and the passing of time.
StepReports(p) ==
    \/ \E outcome \in Outcomes : ReportVerify(p, outcome)
    \/ ReportLookup(p)
    \/ ReportThrottle(p)
    \/ ReportCountGet(p)
    \/ ReportPutCount(p)
    \/ ReportPutMark(p)
    \/ ReportPutBlock(p)
    \/ Deliver(p)

NextReports ==
    \/ \E p \in Procs : StepReports(p)
    \/ /\ started < MaxReports
       /\ \E p \in Procs, u \in {U_WwwA, ShortUrl("aaaaaa")}, ip \in TwoIPs :
            ReportRequest(p, u, TRUE, ip)
    \/ Tick

SpecReports == Init /\ [][NextReports]_vars

\* The auto-block scenario: verified reports of one domain from three
\* addresses, and the creates that follow them.
StepBlocking(p) ==
    \/ ReportVerify(p, "success")
    \/ ReportThrottle(p)
    \/ ReportCountGet(p)
    \/ ReportPutCount(p)
    \/ ReportPutMark(p)
    \/ ReportPutBlock(p)
    \/ CreateVerify(p, "success")
    \/ CreateBlockGet(p)
    \/ CreateExists(p)
    \/ CreatePutUrl(p)
    \/ CreatePutMeta(p)
    \/ Deliver(p)

NextBlocking ==
    \/ \E p \in Procs : StepBlocking(p)
    \/ /\ started < MaxBlocking
       /\ \E p \in Procs :
            \/ \E ip \in IPs : ReportRequest(p, U_a, TRUE, ip)
            \/ CreateRequest(p, U_WwwA, TRUE)

SpecBlocking == Init /\ [][NextBlocking]_vars

\* The click-counting scenario: one link is created, then it is followed and
\* its statistics are read, by several clients at once.
StepClicks(p) ==
    \/ CreateVerify(p, "success")
    \/ CreateBlockGet(p)
    \/ CreateExists(p)
    \/ CreatePutUrl(p)
    \/ CreatePutMeta(p)
    \/ RedirectGet(p)
    \/ TaskGet(p)
    \/ TaskPut(p)
    \/ StatsGet(p)
    \/ Deliver(p)

NextClicks ==
    \/ \E p \in Procs : StepClicks(p)
    \/ /\ started = 0
       /\ \E p \in Procs : CreateRequest(p, U_a, TRUE)
    \/ /\ 0 < started /\ started < MaxClicks
       /\ \E p \in Procs, id \in ShortIds :
            \/ RedirectRequest(p, id)
            \/ StatsRequest(p, id)

SpecClicks == Init /\ [][NextClicks]_vars

\* The short-link report scenario: links are created and short links, live
\* or dead, are reported; requests come with or without a token.
StepShortLinks(p) ==
    \/ \E outcome \in Outcomes : CreateVerify(p, outcome)
    \/ CreateBlockGet(p)
    \/ CreateExists(p)
    \/ CreatePutUrl(p)
    \/ CreatePutMeta(p)
    \/ \E outcome \in Outcomes : ReportVerify(p, outcome)
    \/ ReportLookup(p)
    \/ ReportThrottle(p)
    \/ ReportCountGet(p)
    \/ ReportPutCount(p)
    \/ ReportPutMark(p)
    \/ ReportPutBlock(p)
    \/ Deliver(p)

NextShortLinks ==
    \/ \E p \in Procs : StepShortLinks(p)
    \/ /\ started < MaxShortLinks
       /\ \E p \in Procs, tok \in BOOLEAN :
            \/ CreateRequest(p, U_WwwA, tok)
            \/ \E id \in ShortIds, ip \in TwoIPs : ReportRequest(p, ShortUrl(id), tok, ip)

SpecShortLinks == Init /\ [][NextShortLinks]_vars

\* The threat-lookup scenario: creates of the malicious-URL-checking variant.
StepThreat(p) ==
    \/ \E outcome \in Outcomes : CheckedCreateVerify(p, outcome)
    \/ CheckedCreateBlockGet(p)
    \/ \E res \in ThreatResults : ThreatLookup(p, res)
    \/ CreateExists(p)
    \/ CreatePutUrl(p)
    \/ CreatePutMeta(p)
    \/ Deliver(p)

NextThreat ==
    \/ \E p \in Procs : StepThreat(p)
    \/ /\ started < MaxThreat
       /\ \E p \in Procs, u \in {U_a, U_bad}, tok \in BOOLEAN :
            CheckedCreateRequest(p, u, tok)

SpecThreat == Init /\ [][NextThreat]_vars

\* The normalization scenario: a host is reported and shortened with and
\* without its "www." prefix, and unparsable URLs are reported.
ReportsOfHost == {<<U_a, "ip1">>, <<U_WwwA, "ip2">>, <<U_a, "ip3">>, <<U_bad, "ip1">>}

StepDomains(p) ==
    \/ ReportVerify(p, "success")
    \/ ReportThrottle(p)
    \/ ReportCountGet(p)
    \/ ReportPutCount(p)
    \/ ReportPutMark(p)
    \/ ReportPutBlock(p)
    \/ CreateVerify(p, "success")
    \/ CreateBlockGet(p)
    \/ CreateExists(p)
    \/ CreatePutUrl(p)
    \/ CreatePutMeta(p)
    \/ Deliver(p)

NextDomains ==
    \/ \E p \in Procs : StepDomains(p)
    \/ /\ started < MaxDomains
       /\ \E p \in Procs :
            \/ \E x \in ReportsOfHost : ReportRequest(p, x[1], TRUE, x[2])
            \/ \E u \in {U_a, U_WwwA} : CreateRequest(p, u, TRUE)

SpecDomains == Init /\ [][NextDomains]_vars

\* The lifecycle scenario: one destination is shortened, followed, inspected
\* and reported by one address while time passes.
StepLifecycle(p) ==
    \/ \E outcome \in Outcomes : CreateVerify(p, outcome)
    \/ CreateBlockGet(p)
    \/ CreateExists(p)
    \/ CreatePutUrl(p)
    \/ CreatePutMeta(p)
    \/ \E outcome \in Outcomes : ReportVerify(p, outcome)
    \/ ReportThrottle(p)
    \/ ReportCountGet(p)
    \/ ReportPutCount(p)
    \/ ReportPutMark(p)
    \/ ReportPutBlock(p)
    \/ StatsGet(p)
    \/ RedirectGet(p)
    \/ TaskGet(p)
    \/ TaskPut(p)
    \/ Deliver(p)

NextLifecycle ==
    \/ \E p \in Procs : StepLifecycle(p)
    \/ /\ started < MaxLifecycle
       /\ \E p \in Procs :
            \/ CreateRequest(p, U_a, TRUE)
            \/ ReportRequest(p, U_WwwA, TRUE, "ip1")
            \/ StatsRequest(p, "aaaaaa")
            \/ RedirectRequest(p, "aaaaaa")
    \/ Tick

SpecLifecycle == Init /\ [][NextLifecycle]_vars

\* ================================================================ claims
\* the normalized domain of a destination: the host in lower case without
\* one leading "www."
SpecDomain(u) ==
    LET h == [i \in 1..Len(u.host) |-> Lower(u.host[i])]
    IN  IF Len(h) > 1 /\ h[1] = "www" THEN SubSeq(h, 2, Len(h)) ELSE h

Creates   == {p \in Procs : req[p].kind = "create"}
Reports   == {p \in Procs : req[p].kind = "report"}
Redirects == {p \in Procs : req[p].kind = "redirect"}

Done(p) == req[p].pc = "done"

\* the handler did not end in its catch of a store failure
StoreAnswered(p) == req[p].status # 500

NoStoreAccess(p) == req[p].reads = 0 /\ req[p].writes = <<>>

\* C1: a create touches the store only after its own verification call
\* returned success; without a token it ends 400, with a token but no secret
\* 500, with a non-success outcome 403, and in each case it has read and
\* written nothing.
C1_GateBeforeStore ==
    \A p \in Creates :
        LET r == req[p]
        IN  /\ ~NoStoreAccess(p) => r.called /\ r.outcome = "success"
            /\ Done(p) /\ ~r.token => r.status = 400 /\ NoStoreAccess(p) /\ ~r.called
            /\ Done(p) /\ r.token /\ ~secretSet =>
                    r.status = 500 /\ NoStoreAccess(p) /\ ~r.called
            /\ Done(p) /\ r.outcome = "fail" => r.status = 403 /\ NoStoreAccess(p)
            /\ \A i \in 1..Len(r.writes) : r.writes[i].ns \in {"links", "metas"}

C1_Witness ==
    \E p \in Creates :
        /\ Done(p) /\ req[p].outcome = "fail" /\ req[p].status = 403
        /\ \E i \in ShortIds : links[i] # Null /\ metas[i] # Null

\* C2: once a create of u has answered with short ID s, every later redirect
\* of s answers 301 with destination exactly u.
C2_RoundTrip ==
    \A p \in Redirects :
        LET r == req[p]
        IN  r.expect # {} /\ r.status # 0 /\ StoreAnswered(p) =>
                r.status = 301 /\ \A u \in r.expect : r.location = Some(u)

\* C3: every store write of a create finds its key empty.
C3_NeverOverwrites ==
    \A p \in Creates :
        \A i \in 1..Len(req[p].writes) : req[p].writes[i].prev = Null

ReportersOf(r) == {ip \in IPs : <<SpecDomain(r.url), ip>> \in r.reportersAtStart}

\* C4: a verified create that starts after reports of its domain from three
\* distinct addresses have completed is rejected with 403 and writes nothing.
C4_BlockedAfterThreeReports ==
    \A p \in Creates :
        LET r == req[p]
        IN  r.outcome = "success" /\ Cardinality(ReportersOf(r)) >= 3 =>
                /\ r.writes = <<>>
                /\ Done(p) /\ StoreAnswered(p) => r.status = 403

\* C5: a verified create whose normalized domain has a block entry, whatever
\* its value, writes nothing and is rejected with 403; a create is rejected
\* as blocked only when its domain has a block entry.
C5_BlocklistCheck ==
    \A p \in Creates :
        LET r == req[p]
            d == SpecDomain(r.url)
        IN  /\ r.outcome = "success" /\ d \in r.blockedAtStart =>
                /\ r.writes = <<>>
                /\ Done(p) /\ StoreAnswered(p) =>
                        r.status = 403 /\ r.msg = "DomainBlocked"
            /\ r.msg = "DomainBlocked" => d \in Domains /\ blocked[d] # Null
            /\ Done(p) /\ r.outcome = "success" /\ (d \notin Domains \/ blocked[d] = Null) =>
                    r.status \in {200, 400, 500}

C5_Witness ==
    \E p \in Creates :
        /\ Done(p) /\ req[p].msg = "DomainBlocked" /\ req[p].url = U_WwwA
        /\ blocked[<<"a.com">>] = Some("x")

\* C6: a report that reaches its throttle check while another report of the
\* same address and domain, admitted less than 24 hours before, is under way
\* answers 429 and writes nothing.
C6_SecondReportThrottled ==
    \A p \in Reports :
        LET r == req[p]
        IN  r.dup /\ StoreAnswered(p) =>
                /\ r.writes = <<>>
                /\ Done(p) => r.status = 429

NewCount(r) == (IF r.countRead = Null THEN 0 ELSE r.countRead[1][1]) + 1

ExpectedWrites(r) ==
    << [ns |-> "counts", dom |-> r.domain, ip |-> "", val |-> <<NewCount(r)>>, ttl |-> 0],
       [ns |-> "reported", dom |-> r.domain, ip |-> r.ip, val |-> "1", ttl |-> 86400] >>
    \o (IF NewCount(r) >= 3
        THEN << [ns |-> "blocked", dom |-> r.domain, ip |-> "", val |-> "auto", ttl |-> 0] >>
        ELSE << >>)

Logged(w) == [ns |-> w.ns, dom |-> w.dom, ip |-> w.ip, val |-> w.val, ttl |-> w.ttl]

\* C7: an admitted report writes, in this order, the count it read plus one,
\* the throttle marker with a 24-hour expiry, and the block entry "auto"
\* exactly when the new count is at least 3; a report that is not admitted
\* writes nothing.
C7_ReportWrites ==
    \A p \in Reports :
        LET r == req[p]
            e == ExpectedWrites(r)
        IN  /\ ~r.admit => r.writes = <<>>
            /\ r.admit =>
                /\ Len(r.writes) <= Len(e)
                /\ \A i \in 1..Len(r.writes) : Logged(r.writes[i]) = e[i]
                /\ Done(p) /\ r.status = 200 => Len(r.writes) = Len(e)
                /\ Done(p) => r.status \in {200, 500}

C7_Witness ==
    \E p \in Reports :
        /\ Done(p) /\ req[p].msg = "SubmittedBlocked" /\ Len(req[p].writes) = 3
        /\ blocked[req[p].domain] = Some("auto")
        /\ reported[<<req[p].ip, req[p].domain>>] = Some(now + 86400)

Clicks(j) == j[1][3][2]

\* C8: the clicks value of a metadata record is a non-negative integer and
\* never decreases from one store state to the next.
C8_ClicksMonotonic ==
    [][\A i \in ShortIds :
         metas[i] # Null /\ metas'[i] # Null =>
            Clicks(metas'[i]) \in Nat /\ Clicks(metas'[i]) >= Clicks(metas[i])]_vars

\* C9: the 301 exists before the click task reads or writes anything, and it
\* stands unchanged whatever becomes of the task.
C9_ResponseDetached ==
    \A p \in Redirects :
        LET r == req[p]
        IN  /\ r.pc \in {"t_get", "t_put"} \/ r.task \/ r.taskFailed =>
                r.status = 301 /\ r.got # Null /\ r.location = r.got
            /\ r.pc = "t_get" => r.reads = 1 /\ r.writes = <<>>

C9_Witness ==
    \E p \in Redirects :
        Done(p) /\ req[p].taskFailed /\ req[p].status = 301 /\ req[p].location # Null

\* C10: a redirect of a short ID without a URL entry answers 404, starts no
\* click task and writes nothing.
C10_UnknownIdNoWrite ==
    \A p \in Redirects :
        LET r == req[p]
        IN  r.sid # "" /\ r.status # 0 /\ StoreAnswered(p) /\ links[r.sid] = Null =>
                r.status = 404 /\ Done(p) /\ ~r.task /\ r.writes = <<>> /\ r.reads = 1

C10_Witness ==
    \E p \in Redirects :
        /\ Done(p) /\ req[p].status = 404
        /\ \E i \in ShortIds : links[i] # Null

\* C11: a create whose destination is not a valid absolute URL never writes;
\* once verified it ends 400, as a ValidationError for "not a url", and the
\* blocklist lookup was skipped (no store read at all).
C11_InvalidUrlRejected ==
    \A p \in Creates :
        LET r == req[p]
        IN  r.url \in {U_bad, U_empty} =>
                /\ r.writes = <<>> /\ r.reads = 0
                /\ Done(p) /\ r.outcome = "success" => r.status = 400
                /\ Done(p) /\ r.outcome = "success" /\ r.url = U_bad =>
                        r.msg = "ValidationError"

C11_Witness ==
    \E p \in Creates :
        /\ Done(p) /\ req[p].url = U_bad /\ req[p].outcome = "success"
        /\ req[p].msg = "ValidationError"
        /\ \E i \in ShortIds : links[i] # Null

\* the store reads of a create that are existence checks of a candidate ID:
\* all its reads but the blocklist lookup
ExistenceChecks(r) ==
    r.reads - (IF r.domain # <<>> /\ r.pc # "c_blockGet" THEN 1 ELSE 0)

\* C12: a create makes at most 5 existence checks; when all 5 found their
\* candidate taken it ends 500 IDExhaustionError with nothing written, and it
\* ends so only then.
C12_BoundedIdGeneration ==
    \A p \in Creates :
        LET r == req[p]
        IN  /\ ExistenceChecks(r) <= 5
            /\ r.attempts <= 6
            /\ r.attempts = 6 =>
                    /\ Done(p) /\ r.status = 500 /\ r.msg = "IDExhaustionError"
                    /\ r.writes = <<>>
            /\ r.msg = "IDExhaustionError" => ExistenceChecks(r) = 5 /\ r.attempts = 6

C12_Witness ==
    \E p \in Creates :
        /\ Done(p) /\ req[p].msg = "IDExhaustionError" /\ ExistenceChecks(req[p]) = 5
        /\ \A i \in ShortIds : links[i] # Null

StatsRequests == {p \in Procs : req[p].kind = "stats"}

\* the fields of a stored metadata text
StoredRecord(j) == [originalUrl |-> j[1][1][2], createdAt |-> j[1][2][2], clicks |-> j[1][3][2]]

\* C13: a stats request of s makes one read and no write; it answers 404
\* exactly when nothing is stored under s_meta, whether or not a URL is
\* stored under s, and otherwise 200 with the stored record; its step
\* leaves the whole store as it was.
C13_StatsPureRead ==
    /\ [](\A p \in StatsRequests :
            LET r == req[p]
            IN  /\ r.writes = <<>>
                /\ Done(p) /\ r.sid # "" /\ StoreAnswered(p) =>
                    /\ r.reads = 1
                    /\ r.status = 404 <=> metas[r.sid] = Null
                    /\ metas[r.sid] # Null =>
                            r.status = 200 /\ r.metadata = Some(StoredRecord(metas[r.sid])))
    /\ [][\A p \in StatsRequests : req'[p] # req[p] => store' = store]_vars

C13_Witness ==
    \E p \in StatsRequests :
        /\ Done(p) /\ req[p].status = 404
        /\ links[req[p].sid] # Null /\ metas[req[p].sid] = Null

ShortReports == {p \in Reports : \E i \in ShortIds : req[p].url = ShortUrl(i)}

\* C14: a report of a short link resolves it with one lookup of the URL key
\* and then throttles and counts under the domain of the stored destination;
\* its steps leave every URL and metadata key as they were; when the short
\* ID has no URL entry it answers 200 "short link not found" and has
\* written nothing.
C14_ShortLinkReport ==
    /\ [](\A p \in ShortReports :
            LET r == req[p]
            IN  /\ r.reads <= 3
                /\ r.admit \/ r.pc = "p_throttle" =>
                        /\ r.got # Null /\ r.url = ShortUrl(r.sid)
                        /\ r.domain = SpecDomain(r.got[1])
                /\ r.pc = "p_throttle" => r.reads = 1
                /\ \A i \in 1..Len(r.writes) :
                        /\ r.writes[i].ns \in {"counts", "reported", "blocked"}
                        /\ r.writes[i].dom = SpecDomain(r.got[1])
                /\ r.msg = "ShortLinkNotFound" => links[r.sid] = Null
                /\ Done(p) /\ r.outcome = "success" /\ links[r.sid] = Null /\ r.status # 400 =>
                        /\ r.status = 200 /\ r.msg = "ShortLinkNotFound"
                        /\ r.writes = <<>> /\ r.reads = 1)
    /\ [][\A p \in ShortReports :
            req'[p] # req[p] => links' = links /\ metas' = metas]_vars

C14_Witness ==
    \E p \in ShortReports :
        /\ Done(p) /\ req[p].msg = "Submitted" /\ req[p].got = Some(U_WwwA)
        /\ req[p].domain = <<"a.com">> /\ counts[<<"a.com">>] # Null
        /\ metas[req[p].sid] # Null

\* C15: a create of the checking variant reaches its ID loop and its writes
\* only after a threat lookup that came after the blocklist check and found
\* nothing; a match ends 400 URLFlaggedUnsafe, a failed lookup ends 500
\* SafeBrowsingError, and in both cases the request has written nothing.
C15_ThreatCheckFailClosed ==
    \A p \in Creates :
        LET r == req[p]
        IN  /\ r.writes # <<>> \/ r.pc \in {"c_exists", "c_putUrl", "c_putMeta"} =>
                    r.threat = "clean"
            /\ r.threat # "" =>
                    /\ r.outcome = "success" /\ r.msg # "DomainBlocked"
                    /\ r.domain = <<>> \/ r.reads >= 1
            /\ r.threat = "match" =>
                    Done(p) /\ r.status = 400 /\ r.msg = "URLFlaggedUnsafe" /\ r.writes = <<>>
            /\ r.threat \in {"networkError", "badStatus", "noApiKey"} =>
                    Done(p) /\ r.status = 500 /\ r.msg = "SafeBrowsingError" /\ r.writes = <<>>

C15_Witness ==
    \E p \in Creates :
        /\ Done(p) /\ req[p].threat = "networkError" /\ req[p].msg = "SafeBrowsingError"
        /\ req[p].url = U_a /\ links = [i \in ShortIds |-> Null]

\* C16: on the create and on the report path, a request without a token
\* ends 400 MissingCaptcha whether or not a secret is configured, a request
\* with a token but without a configured secret ends 500 ConfigError, and in
\* both cases the verification service was not called and the store not used.
C16_GateOrder ==
    \A p \in Creates \cup Reports :
        LET r == req[p]
        IN  /\ ~r.token =>
                /\ Done(p) /\ r.status = 400 /\ r.msg = "MissingCaptcha"
                /\ ~r.called /\ NoStoreAccess(p)
            /\ r.token /\ ~secretSet =>
                /\ Done(p) /\ r.status = 500 /\ r.msg = "ConfigError"
                /\ ~r.called /\ NoStoreAccess(p)
            /\ r.called => r.token /\ secretSet

C16_Witness ==
    \E p \in Reports :
        Done(p) /\ ~req[p].token /\ ~secretSet /\ req[p].status = 400

\* C17: a redirect of a short ID whose URL key exists and whose metadata key
\* is absent answers 301 to the stored URL; its click task writes nothing,
\* and no step of a redirect makes an absent metadata record appear.
C17_PartialCreationTolerated ==
    /\ [](\A p \in Redirects :
            LET r == req[p]
            IN  r.task /\ Done(p) /\ metas[r.sid] = Null =>
                    /\ r.status = 301 /\ r.got # Null /\ r.location = r.got
                    /\ r.writes = <<>>)
    /\ [][\A p \in Redirects :
            req'[p] # req[p] =>
                /\ \A i \in ShortIds : metas[i] = Null => metas'[i] = Null
                /\ (/\ req[p].pc = "r_get" /\ req'[p].status # 500
                    /\ links[req[p].sid] # Null /\ metas[req[p].sid] = Null)
                   => req'[p].status = 301 /\ req'[p].location = links[req[p].sid]]_vars

C17_Witness ==
    \E p \in Redirects :
        /\ Done(p) /\ req[p].task /\ ~req[p].taskFailed /\ req[p].reads = 2
        /\ req[p].status = 301 /\ req[p].location = links[req[p].sid]
        /\ metas[req[p].sid] = Null

\* C18: whenever no create is under way, a URL is stored under s exactly
\* when a metadata record is stored under s_meta, that record names the same
\* destination as the URL key, and every metadata record a create wrote had
\* clicks 0 and the destination of that create.
C18_CreatedTogether ==
    (\A p \in Creates : Done(p)) =>
        /\ \A i \in ShortIds :
                /\ links[i] # Null <=> metas[i] # Null
                /\ metas[i] # Null /\ links[i] # Null =>
                        StoredRecord(metas[i]).originalUrl = links[i][1]
        /\ \A p \in Creates : \A k \in 1..Len(req[p].writes) :
                LET w == req[p].writes[k]
                IN  w.ns = "metas" => w.val[3][2] = 0 /\ w.val[1][2] = req[p].url

\* the number a stored count text stands for; no entry counts as 0
StoredCount(v) == IF v = Null THEN 0 ELSE ParseInt(v[1])

\* C19: the report count stored for a domain never decreases from one store
\* state to the next.
C19_ReportCountMonotonic ==
    [][\A d \in Domains : StoredCount(counts'[d]) >= StoredCount(counts[d])]_vars

\* C20: a step of a redirect of s or of its click task leaves every URL key,
\* every other metadata record, every block entry, count and marker as they
\* were, and changes at most the clicks field of the record under s_meta.
C20_RedirectFrame ==
    [][\A p \in Redirects :
         req'[p] # req[p] =>
            /\ links' = links /\ blocked' = blocked
            /\ counts' = counts /\ reported' = reported
            /\ \A i \in ShortIds \ {req[p].sid} : metas'[i] = metas[i]
            /\ \A i \in ShortIds : metas[i] # Null /\ i = req[p].sid =>
                    /\ metas'[i] # Null
                    /\ StoredRecord(metas'[i]).originalUrl = StoredRecord(metas[i]).originalUrl
                    /\ StoredRecord(metas'[i]).createdAt = StoredRecord(metas[i]).createdAt]_vars

\* C21: reports of a URL on a.com and of a URL on WWW.A.COM are throttled,
\* counted and blocked under the one key a.com, nothing is ever stored under
\* www.a.com, a verified create of either URL is rejected as DomainBlocked
\* once a.com has a block entry, and a report of an unparsable URL ends 400
\* ValidationError with nothing written.
C21_SameNormalization ==
    /\ counts[<<"www", "a.com">>] = Null /\ blocked[<<"www", "a.com">>] = Null
    /\ \A ip \in IPs : reported[<<ip, <<"www", "a.com">>>>] = Null
    /\ \A p \in Reports :
        LET r == req[p]
        IN  /\ r.url \in {U_a, U_WwwA} =>
                /\ r.outcome = "success" => r.domain = <<"a.com">>
                /\ \A i \in 1..Len(r.writes) : r.writes[i].dom = <<"a.com">>
                /\ Done(p) /\ r.status = 200 =>
                        /\ counts[<<"a.com">>] # Null
                        /\ reported[<<r.ip, <<"a.com">>>>] # Null
            /\ r.url = U_bad =>
                /\ r.writes = <<>>
                /\ Done(p) /\ r.outcome = "success" =>
                        r.status = 400 /\ r.msg = "ValidationError"
    /\ \A p \in Creates :
        LET r == req[p]
        IN  /\ r.url \in {U_a, U_WwwA} /\ r.outcome = "success"
            /\ <<"a.com">> \in r.blockedAtStart /\ Done(p) /\ StoreAnswered(p)
            => r.status = 403 /\ r.msg = "DomainBlocked" /\ r.writes = <<>>

C21_Witness ==
    \E p \in Reports :
        /\ Done(p) /\ req[p].url = U_WwwA /\ req[p].msg = "SubmittedBlocked"
        /\ <<<<"a.com">>, "ip1">> \in reporters
        /\ blocked[<<"a.com">>] = Some("auto") /\ counts[<<"a.com">>] = Some(<<3>>)

\* C24: the clicks value stored for a short ID never exceeds the number of
\* redirects of that ID that found the URL and started a click task.
C24_ClicksNeverOverCount ==
    \A i \in ShortIds :
        metas[i] # Null => StoredRecord(metas[i]).clicks <= clicked[i]

C24_Witness ==
    /\ \A p \in Procs : req[p].pc = "idle"
    /\ \E i \in ShortIds :
            /\ metas[i] # Null /\ clicked[i] >= 3
            /\ StoredRecord(metas[i]).clicks = 1

\* C25: whenever a block entry tagged "auto" is written for a domain, at
\* least 3 verified and admitted reports of that domain have written a
\* report count before, the writing report among them.
C25_AutoBlockAfterThreeReports ==
    [][\A d \in Domains :
         blocked'[d] # blocked[d] =>
            /\ blocked'[d] = Some("auto")
            /\ counted[d] >= 3
            /\ \E p \in Reports :
                    /\ req[p].outcome = "success" /\ req[p].admit /\ req[p].domain = d
                    /\ Len(req[p].writes) >= 1 /\ req[p].writes[1].ns = "counts"]_vars

C25_Witness ==
    \E p \in Reports :
        /\ Done(p) /\ req[p].msg = "SubmittedBlocked"
        /\ blocked[req[p].domain] = Some("auto") /\ counted[req[p].domain] = 3
        /\ StoredCount(counts[req[p].domain]) = 3

Verifying == {p \in Procs : req[p].pc \in {"c_verify", "p_verify"}}

\* C22: the verification call of a create or of a report is bounded in time:
\* no request whose call is outstanding is still waiting for it after the
\* clock has advanced by 24 hours.
C22_VerificationBounded ==
    [][now' > now => \A p \in Verifying : p \notin Verifying']_vars

\* C23: no step removes a URL, a metadata record, a block entry or a report
\* count; a throttle marker is written with an expiry 24 hours ahead and
\* disappears only in a step in which the clock reaches that expiry.
C23_NoKeyDeleted ==
    [][/\ \A i \in ShortIds :
            /\ links[i] # Null => links'[i] # Null
            /\ metas[i] # Null => metas'[i] # Null
       /\ \A d \in Domains :
            /\ blocked[d] # Null => blocked'[d] # Null
            /\ counts[d] # Null => counts'[d] # Null
       /\ \A k \in DOMAIN reported :
            /\ reported'[k] # reported[k] /\ reported'[k] # Null =>
                    now' = now /\ reported'[k] = Some(now + 86400)
            /\ reported[k] # Null /\ reported'[k] = Null =>
                    now' > now /\ reported[k][1] <= now']_vars

C23_Witness ==
    /\ now = 86400
    /\ <<<<"a.com">>, "ip1">> \in reporters
    /\ reported[<<"ip1", <<"a.com">>>>] = Null
    /\ counts[<<"a.com">>] # Null
    /\ links["aaaaaa"] # Null /\ metas["aaaaaa"] # Null /\ clicked["aaaaaa"] >= 1

====
